---- MODULE Spec2Model ----
(***************************************************************************)
(* Model of the two maintenance scripts of the repository:                 *)
(*   apply-fixes.py : three substitutions in postgresql-module.ts          *)
(*   update-doc.py  : insertion of PHASE_72_DOC into Token-Exchange.md     *)
(*                                                                         *)
(* A file content is a sequence of text segments.  Each segment stands for *)
(* one fixed piece of the string literals of the scripts:                  *)
(*   apply-fixes.py                                                        *)
(*     "P"  the requiredClaim doc comment and field, with its blank line   *)
(*     "Q"  '  /** Token cache configuration */'                           *)
(*     "N"  the rolesClaim doc comment and field, with its blank line      *)
(*     "H"  '// Use claim value ...' and the effectiveLegacyUsername line  *)
(*     "E"  the five lines that extract teRoles, with their blank line     *)
(*     "L"  "console.log('... successful:', {" and the legacyUsername line *)
(*     "M"  the 'roles: teRoles,' and 'rolesClaimPath,' lines              *)
(*     "T"  the 'idpName: ...' line and the closing '});'                  *)
(*     "U"  'tokenExchangeUsed: !!this.tokenExchange'                      *)
(*     "S"  'Service'          "G"  'Config'                               *)
(*   update-doc.py                                                         *)
(*     "B"  '**Build Verification:** ... All builds successful after fix'  *)
(*     "RULE" '\n\n---\n'      "NL" '\n'      "KD" '## Key Decisions'      *)
(*     "X1" PHASE_72_DOC from '### Phase 7.2' up to its Build Verification *)
(*     "X2" PHASE_72_DOC from '\n- Core:' to '... SQL authorization'       *)
(*   "o"  any other text                                                   *)
(* None of the literals of apply-fixes.py is a part of, or overlaps the    *)
(* start or end of, another one or itself; PHASE_72_DOC overlaps itself by *)
(* its first and last '\n' only.  The segments keep exactly this overlap   *)
(* structure.                                                              *)
(***************************************************************************)
EXTENDS Naturals, Integers, Sequences, FiniteSets, TLC

VARIABLES script, disk, pc, content, insertion_point, new_content,
          out, exitCode, run, runStart, disk0, okRuns, hist, reads, opensW, writes

vars == <<script, disk, pc, content, insertion_point, new_content,
          out, exitCode, run, runStart, disk0, okRuns, hist, reads, opensW, writes>>

\* ---------------------------------------------------------------- bounds
MaxChunks == 3
MaxRuns == 3

\* ------------------------------------------------------ string constants
\* apply-fixes.py, Fix #3
Anchor3 == <<"P", "Q">>
Repl3 == <<"P", "N", "Q">>
\* apply-fixes.py, Fix #1
Anchor1 == <<"H", "L", "T">>
Repl1 == <<"H", "E", "L", "M", "T">>
\* apply-fixes.py, Fix #2 (the pattern has one escaped dot and no other
\* special character: it matches exactly one text)
Pattern2 == <<"U", "S">>
Repl2 == <<"U", "G">>

\* update-doc.py
PHASE_72_DOC == <<"NL", "X1", "B", "X2", "RULE", "NL">>
DocAnchor == <<"B", "RULE", "NL", "KD">>
DocHead == <<"B", "RULE">>
DocTail == <<"NL", "KD">>

\* ------------------------------------------------------ string functions
\* c[i : i+len(a)] == a, with the 0-based offset i of Python
OccursAt(c, a, i) ==
  /\ i >= 0
  /\ i + Len(a) <= Len(c)
  /\ SubSeq(c, i + 1, i + Len(a)) = a

Offsets(c, a) == {i \in 0..Len(c) : OccursAt(c, a, i)}

Contains(c, a) == Offsets(c, a) # {}

Count(c, a) == Cardinality(Offsets(c, a))

\* str.find: the lowest offset of a in c, -1 when a is not in c
Find(c, a) ==
  IF Offsets(c, a) = {} THEN -1
  ELSE CHOOSE i \in Offsets(c, a) : \A j \in Offsets(c, a) : i <= j

\* c[i:] and c[:i] for 0 <= i
SliceFrom(c, i) == SubSeq(c, i + 1, Len(c))
SliceTo(c, i) == SubSeq(c, 1, i)

\* variant of StrReplace: only the last occurrence is replaced
StrReplace_LastOnly(c, old, new) ==
  IF Offsets(c, old) = {} THEN c
  ELSE LET i == CHOOSE i \in Offsets(c, old) : \A j \in Offsets(c, old) : j <= i
       IN SliceTo(c, i) \o new \o SliceFrom(c, i + Len(old))

\* str.replace(old, new): every non-overlapping occurrence, leftmost first
RECURSIVE StrReplace(_, _, _)
StrReplace(c, old, new) ==
  LET i == Find(c, old)
  IN IF i = -1 THEN c
     ELSE SliceTo(c, i) \o new \o StrReplace(SliceFrom(c, i + Len(old)), old, new)

\* re.sub(pattern, repl, string): scan from the left; where the pattern
\* matches emit repl and continue after the match, else copy one segment
RECURSIVE ReSubFrom(_, _, _, _)
ReSubFrom(pattern, repl, c, pos) ==
  IF pos >= Len(c) THEN <<>>
  ELSE IF OccursAt(c, pattern, pos)
       THEN repl \o ReSubFrom(pattern, repl, c, pos + Len(pattern))
       ELSE <<c[pos + 1]>> \o ReSubFrom(pattern, repl, c, pos + 1)

\* variant of ReSub: as with count=1, only the first match is replaced
ReSub_FirstOnly(pattern, repl, c) ==
  IF Find(c, pattern) = -1 THEN c
  ELSE SliceTo(c, Find(c, pattern)) \o repl
       \o SliceFrom(c, Find(c, pattern) + Len(pattern))

ReSub(pattern, repl, c) == ReSubFrom(pattern, repl, c, 0)

\* ---------------------------------------------------------- file contents
FixChunks == {Anchor3, Anchor1, Pattern2,
              <<"P">>, <<"Q">>, <<"H">>, <<"L">>, <<"T">>, <<"U">>, <<"S">>, <<"o">>}

DocChunks == {DocAnchor, PHASE_72_DOC,
              <<"B">>, <<"RULE">>, <<"NL">>, <<"KD">>, <<"X1">>, <<"o">>}

RECURSIVE Contents(_, _)
Contents(chunks, n) ==
  IF n = 0 THEN {<<>>}
  ELSE LET prev == Contents(chunks, n - 1)
       IN prev \cup {c \o s : c \in prev, s \in chunks}

\* ------------------------------------------------------------ console
MsgAll3 == "All 3 fixes applied successfully!"
MsgFix1 == "Fix #1: Added role extraction from TE-JWT"
MsgFix2 == "Fix #2: Fixed this.tokenExchangeService -> this.tokenExchangeConfig"
MsgFix3 == "Fix #3: Added rolesClaim field to TokenExchangeConfig interface"
MsgError == "ERROR: Could not find insertion point"
MsgSuccess == "SUCCESS: Added Phase 7.2 documentation to Token-Exchange.md"

Printed(m) == \E k \in 1..Len(out) : out[k] = m

\* ------------------------------------------------------------------ Init
Init ==
  /\ script \in {"fix", "doc"}
  /\ disk \in (IF script = "fix" THEN Contents(FixChunks, MaxChunks)
                                 ELSE Contents(DocChunks, MaxChunks))
  /\ pc = "start"
  /\ content = <<>>
  /\ insertion_point = 0
  /\ new_content = <<>>
  /\ out = <<>>
  /\ exitCode = -1
  /\ run = 1
  /\ runStart = disk
  /\ disk0 = disk
  /\ okRuns = 0
  /\ hist = <<>>
  /\ reads = 0
  /\ opensW = 0
  /\ writes = 0

\* ------------------------------------------------- apply-fixes.py, steps
\* with open(FILE_PATH, 'r') as f: content = f.read()
Fix_Load ==
  /\ script = "fix" /\ pc = "start"
  /\ content' = disk
  /\ reads' = reads + 1
  /\ hist' = <<disk>>
  /\ pc' = "fix3"
  /\ UNCHANGED <<script, disk0, okRuns, disk, insertion_point, new_content, out, exitCode,
                 run, runStart, opensW, writes>>

\* open(FILE_PATH, 'r') or f.read() raises: uncaught, the process ends
Fix_LoadFail ==
  /\ script = "fix" /\ pc = "start"
  /\ pc' = "ioerror"
  /\ exitCode' = 1
  /\ UNCHANGED <<script, disk0, okRuns, disk, content, insertion_point, new_content, out,
                 run, runStart, hist, reads, opensW, writes>>

\* Fix #3: content = content.replace(anchor, replacement)
Fix_Fix3 ==
  /\ script = "fix" /\ pc = "fix3"
  /\ content' = StrReplace(content, Anchor3, Repl3)
  /\ hist' = Append(hist, content')
  /\ pc' = "fix1"
  /\ UNCHANGED <<script, disk0, okRuns, disk, insertion_point, new_content, out, exitCode,
                 run, runStart, reads, opensW, writes>>

\* variant of Fix_Fix1: the substitution is made on the content as read,
\* not on the output of Fix #3
Fix_Fix1_OnRead ==
  /\ script = "fix" /\ pc = "fix1"
  /\ content' = StrReplace(hist[1], Anchor1, Repl1)
  /\ hist' = Append(hist, content')
  /\ pc' = "fix2"
  /\ UNCHANGED <<script, disk0, okRuns, disk, insertion_point, new_content,
                 out, exitCode, run, runStart, reads, opensW, writes>>

\* Fix #1: content = content.replace(anchor, replacement)
Fix_Fix1 ==
  /\ script = "fix" /\ pc = "fix1"
  /\ content' = StrReplace(content, Anchor1, Repl1)
  /\ hist' = Append(hist, content')
  /\ pc' = "fix2"
  /\ UNCHANGED <<script, disk0, okRuns, disk, insertion_point, new_content, out, exitCode,
                 run, runStart, reads, opensW, writes>>

\* Fix #2: content = re.sub(pattern, replacement, content)
Fix_Fix2 ==
  /\ script = "fix" /\ pc = "fix2"
  /\ content' = ReSub(Pattern2, Repl2, content)
  /\ hist' = Append(hist, content')
  /\ pc' = "openw"
  /\ UNCHANGED <<script, disk0, okRuns, disk, insertion_point, new_content, out, exitCode,
                 run, runStart, reads, opensW, writes>>

\* open(FILE_PATH, 'w'): the file is truncated when it is opened
Fix_OpenW ==
  /\ script = "fix" /\ pc = "openw"
  /\ disk' = <<>>
  /\ opensW' = opensW + 1
  /\ pc' = "write"
  /\ UNCHANGED <<script, disk0, okRuns, content, insertion_point, new_content, out, exitCode,
                 run, runStart, hist, reads, writes>>

\* open(FILE_PATH, 'w') raises: uncaught, the process ends
Fix_OpenWFail ==
  /\ script = "fix" /\ pc = "openw"
  /\ pc' = "ioerror"
  /\ exitCode' = 1
  /\ UNCHANGED <<script, disk0, okRuns, disk, content, insertion_point, new_content, out,
                 run, runStart, hist, reads, opensW, writes>>

\* f.write(content) and the close at the end of the with block
Fix_Write ==
  /\ script = "fix" /\ pc = "write"
  /\ disk' = content
  /\ writes' = writes + 1
  /\ pc' = "report"
  /\ UNCHANGED <<script, disk0, okRuns, content, insertion_point, new_content, out, exitCode,
                 run, runStart, hist, reads, opensW>>

\* the write fails or the process is interrupted after the file was
\* opened: any leading part of the content may have reached the file
Fix_WriteInterrupted ==
  /\ script = "fix" /\ pc = "write"
  /\ \E k \in 0..Len(content) : disk' = SliceTo(content, k)
  /\ pc' = "ioerror"
  /\ exitCode' = 1
  /\ UNCHANGED <<script, disk0, okRuns, content, insertion_point, new_content, out,
                 run, runStart, hist, reads, opensW, writes>>

\* the four print calls that end the script
Fix_Report ==
  /\ script = "fix" /\ pc = "report"
  /\ out' = out \o <<MsgAll3, MsgFix1, MsgFix2, MsgFix3>>
  /\ exitCode' = 0
  /\ pc' = "done"
  /\ okRuns' = okRuns + 1
  /\ UNCHANGED <<script, disk0, disk, content, insertion_point, new_content,
                 run, runStart, hist, reads, opensW, writes>>

\* --------------------------------------------------- update-doc.py, steps
\* with open(FILE_PATH, 'r') as f: content = f.read()
Doc_Load ==
  /\ script = "doc" /\ pc = "start"
  /\ content' = disk
  /\ reads' = reads + 1
  /\ hist' = <<disk>>
  /\ pc' = "find"
  /\ UNCHANGED <<script, disk0, okRuns, disk, insertion_point, new_content, out, exitCode,
                 run, runStart, opensW, writes>>

Doc_LoadFail ==
  /\ script = "doc" /\ pc = "start"
  /\ pc' = "ioerror"
  /\ exitCode' = 1
  /\ UNCHANGED <<script, disk0, okRuns, disk, content, insertion_point, new_content, out,
                 run, runStart, hist, reads, opensW, writes>>

\* insertion_point = content.find(anchor)
Doc_Find ==
  /\ script = "doc" /\ pc = "find"
  /\ insertion_point' = Find(content, DocAnchor)
  /\ pc' = "check"
  /\ UNCHANGED <<script, disk0, okRuns, disk, content, new_content, out, exitCode,
                 run, runStart, hist, reads, opensW, writes>>

\* variant of Doc_NotFound: the diagnostic is printed but the script goes on
Doc_NotFound_NoExit ==
  /\ script = "doc" /\ pc = "check"
  /\ insertion_point = -1
  /\ out' = Append(out, MsgError)
  /\ new_content' = content \o PHASE_72_DOC
  /\ hist' = Append(hist, new_content')
  /\ pc' = "openw"
  /\ UNCHANGED <<script, disk0, okRuns, disk, content, insertion_point,
                 exitCode, run, runStart, reads, opensW, writes>>

\* if insertion_point == -1: print(...); exit(1)
Doc_NotFound ==
  /\ script = "doc" /\ pc = "check"
  /\ insertion_point = -1
  /\ out' = Append(out, MsgError)
  /\ exitCode' = 1
  /\ pc' = "exited"
  /\ UNCHANGED <<script, disk0, okRuns, disk, content, insertion_point, new_content,
                 run, runStart, hist, reads, opensW, writes>>

\* variant of Doc_Splice: the block is put after the end of the anchor
Doc_Splice_AfterAnchor ==
  /\ script = "doc" /\ pc = "check"
  /\ insertion_point # -1
  /\ new_content' = SliceTo(content, insertion_point + Len(DocAnchor))
                    \o PHASE_72_DOC
                    \o SliceFrom(content, insertion_point + Len(DocAnchor))
  /\ hist' = Append(hist, new_content')
  /\ pc' = "openw"
  /\ UNCHANGED <<script, disk0, okRuns, disk, content, insertion_point, out,
                 exitCode, run, runStart, reads, opensW, writes>>

\* variant of Doc_Splice: the rest of the file is taken from the end of the
\* head, so the tail of the anchor is written twice
Doc_Splice_TailTwice ==
  /\ script = "doc" /\ pc = "check"
  /\ insertion_point # -1
  /\ new_content' = SliceTo(content, insertion_point) \o DocHead \o PHASE_72_DOC
                    \o DocTail \o SliceFrom(content, insertion_point + Len(DocHead))
  /\ hist' = Append(hist, new_content')
  /\ pc' = "openw"
  /\ UNCHANGED <<script, disk0, okRuns, disk, content, insertion_point, out,
                 exitCode, run, runStart, reads, opensW, writes>>

\* new_content = content[:insertion_point] + head + PHASE_72_DOC + tail
\*               + content[insertion_point + len(anchor):]
Doc_Splice ==
  /\ script = "doc" /\ pc = "check"
  /\ insertion_point # -1
  /\ new_content' = SliceTo(content, insertion_point) \o DocHead \o PHASE_72_DOC
                    \o DocTail \o SliceFrom(content, insertion_point + Len(DocAnchor))
  /\ hist' = Append(hist, new_content')
  /\ pc' = "openw"
  /\ UNCHANGED <<script, disk0, okRuns, disk, content, insertion_point, out, exitCode,
                 run, runStart, reads, opensW, writes>>

Doc_OpenW ==
  /\ script = "doc" /\ pc = "openw"
  /\ disk' = <<>>
  /\ opensW' = opensW + 1
  /\ pc' = "write"
  /\ UNCHANGED <<script, disk0, okRuns, content, insertion_point, new_content, out, exitCode,
                 run, runStart, hist, reads, writes>>

Doc_OpenWFail ==
  /\ script = "doc" /\ pc = "openw"
  /\ pc' = "ioerror"
  /\ exitCode' = 1
  /\ UNCHANGED <<script, disk0, okRuns, disk, content, insertion_point, new_content, out,
                 run, runStart, hist, reads, opensW, writes>>

Doc_Write ==
  /\ script = "doc" /\ pc = "write"
  /\ disk' = new_content
  /\ writes' = writes + 1
  /\ pc' = "report"
  /\ UNCHANGED <<script, disk0, okRuns, content, insertion_point, new_content, out, exitCode,
                 run, runStart, hist, reads, opensW>>

Doc_WriteInterrupted ==
  /\ script = "doc" /\ pc = "write"
  /\ \E k \in 0..Len(new_content) : disk' = SliceTo(new_content, k)
  /\ pc' = "ioerror"
  /\ exitCode' = 1
  /\ UNCHANGED <<script, disk0, okRuns, content, insertion_point, new_content, out,
                 run, runStart, hist, reads, opensW, writes>>

Doc_Report ==
  /\ script = "doc" /\ pc = "report"
  /\ out' = Append(out, MsgSuccess)
  /\ exitCode' = 0
  /\ pc' = "done"
  /\ okRuns' = okRuns + 1
  /\ UNCHANGED <<script, disk0, disk, content, insertion_point, new_content,
                 run, runStart, hist, reads, opensW, writes>>

\* ------------------------------------------------------------ another run
\* the same script is started again on the file the last run left, after
\* that run ended by itself (end of script or exit(1))
Rerun ==
  /\ pc \in {"done", "exited"}
  /\ run < MaxRuns
  /\ run' = run + 1
  /\ runStart' = disk
  /\ pc' = "start"
  /\ content' = <<>>
  /\ insertion_point' = 0
  /\ new_content' = <<>>
  /\ out' = <<>>
  /\ exitCode' = -1
  /\ hist' = <<>>
  /\ reads' = 0
  /\ opensW' = 0
  /\ writes' = 0
  /\ UNCHANGED <<script, disk0, okRuns, disk>>

Next ==
  \/ Fix_Load \/ Fix_LoadFail \/ Fix_Fix3 \/ Fix_Fix1 \/ Fix_Fix2
  \/ Fix_OpenW \/ Fix_OpenWFail \/ Fix_Write \/ Fix_WriteInterrupted
  \/ Fix_Report
  \/ Doc_Load \/ Doc_LoadFail \/ Doc_Find \/ Doc_NotFound \/ Doc_Splice
  \/ Doc_OpenW \/ Doc_OpenWFail \/ Doc_Write \/ Doc_WriteInterrupted
  \/ Doc_Report
  \/ Rerun

Spec == Init /\ [][Next]_vars

\* ============================================================== claims
\* the whole apply-fixes.py job and the whole update-doc.py splice, as
\* functions of the content read
FixJob(c) ==
  ReSub(Pattern2, Repl2,
        StrReplace(StrReplace(c, Anchor3, Repl3), Anchor1, Repl1))

DocJob(c) ==
  SliceTo(c, Find(c, DocAnchor)) \o DocHead \o PHASE_72_DOC \o DocTail
  \o SliceFrom(c, Find(c, DocAnchor) + Len(DocAnchor))

\* the offset of the first occurrence of a in c, said without Find
IsFirst(c, a, i) ==
  /\ OccursAt(c, a, i)
  /\ \A j \in 0..(i - 1) : ~OccursAt(c, a, j)

\* the operations the console report of apply-fixes.py names as applied;
\* an operation is reported as unapplied when the report does not name it
ReportedApplied ==
  {k \in {1, 2, 3} :
     Printed(IF k = 1 THEN MsgFix1 ELSE IF k = 2 THEN MsgFix2 ELSE MsgFix3)}

ReportedUnapplied == {1, 2, 3} \ ReportedApplied

\* the operations of the finished run whose anchor was in their input
\* (hist = <<read, after Fix #3, after Fix #1, after Fix #2>>)
FoundOps ==
  {k \in {1, 2, 3} :
     \/ k = 3 /\ Contains(hist[1], Anchor3)
     \/ k = 1 /\ Contains(hist[2], Anchor1)
     \/ k = 2 /\ Contains(hist[3], Pattern2)}

FixDone == script = "fix" /\ pc = "done"

\* C1: when a literal anchor of the fix job is not in the content, the
\* replacement leaves the content as it is, the job still ends and writes
\* its content back, and the anchor is reported as unapplied.
C1_MissReported ==
  FixDone =>
    /\ disk = hist[4]
    /\ ~Contains(hist[1], Anchor3) => (hist[2] = hist[1] /\ 3 \in ReportedUnapplied)
    /\ ~Contains(hist[2], Anchor1) => (hist[3] = hist[2] /\ 1 \in ReportedUnapplied)

\* C2: when the insertion anchor is not in the file, update-doc.py prints
\* its diagnostic and exits with status 1 (or dies on the read), never
\* opens the file for writing, and the file keeps its content.
C2_MissingAnchorNoWrite ==
  (script = "doc" /\ ~Contains(runStart, DocAnchor)) =>
    /\ opensW = 0 /\ writes = 0
    /\ disk = runStart
    /\ pc \in {"start", "find", "check", "exited", "ioerror"}
    /\ pc = "exited" => (exitCode = 1 /\ Printed(MsgError))
    /\ pc = "ioerror" => (exitCode = 1 /\ reads = 0)

C2_Witness ==
  /\ script = "doc" /\ pc = "exited"
  /\ ~Contains(runStart, DocAnchor)
  /\ runStart # <<>>

\* C3 as claimed: with the anchor exactly once in the content C, the written
\* content has the block exactly once, right after the end of the anchor,
\* and deleting the block gives back C.
C3_BlockAfterAnchor ==
  (script = "doc" /\ pc = "done" /\ Count(runStart, DocAnchor) = 1) =>
    \A i \in 0..Len(runStart) : IsFirst(runStart, DocAnchor, i) =>
      /\ Count(disk, PHASE_72_DOC) = 1
      /\ OccursAt(disk, DocAnchor, i)
      /\ OccursAt(disk, PHASE_72_DOC, i + Len(DocAnchor))
      /\ SliceTo(disk, i + Len(DocAnchor))
           \o SliceFrom(disk, i + Len(DocAnchor) + Len(PHASE_72_DOC)) = runStart

\* C3 as amended: with the anchor exactly once in the content C, the block
\* is inserted once inside the text of the anchor, right after its head
\* (up to the rule) and right before its tail (the Key Decisions heading):
\* the written content has one copy of the block more than C, and deleting
\* the inserted block gives back C.
C3_BlockInsideAnchor ==
  (script = "doc" /\ pc = "done" /\ Count(runStart, DocAnchor) = 1) =>
    \A i \in 0..Len(runStart) : IsFirst(runStart, DocAnchor, i) =>
      /\ Count(disk, PHASE_72_DOC) = Count(runStart, PHASE_72_DOC) + 1
      /\ SliceTo(disk, i) = SliceTo(runStart, i)
      /\ OccursAt(disk, DocHead, i)
      /\ OccursAt(disk, PHASE_72_DOC, i + Len(DocHead))
      /\ OccursAt(disk, DocTail, i + Len(DocHead) + Len(PHASE_72_DOC))
      /\ SliceTo(disk, i + Len(DocHead))
           \o SliceFrom(disk, i + Len(DocHead) + Len(PHASE_72_DOC)) = runStart

C3_Witness ==
  /\ script = "doc" /\ pc = "done"
  /\ Count(runStart, DocAnchor) = 1
  /\ Find(runStart, DocAnchor) > 0
  /\ Len(runStart) > Find(runStart, DocAnchor) + Len(DocAnchor)

\* the result r of a literal replacement of a by new in c: the text before
\* the first occurrence of a is kept, new stands at that offset, a does not
LiteralInPlace(c, r, a, new) ==
  \A i \in 0..Len(c) : IsFirst(c, a, i) =>
    /\ SliceTo(r, i) = SliceTo(c, i)
    /\ OccursAt(r, new, i)
    /\ ~OccursAt(r, a, i)

\* C4: a literal replacement of an anchor that is in the content puts the
\* replacement in place of the first occurrence: the text before it is
\* unchanged and followed directly by the replacement, and the anchor is
\* no longer at that offset.
C4_LiteralFirstOccurrence ==
  script = "fix" =>
    /\ Len(hist) >= 2 => LiteralInPlace(hist[1], hist[2], Anchor3, Repl3)
    /\ Len(hist) >= 3 => LiteralInPlace(hist[2], hist[3], Anchor1, Repl1)

C4_Witness ==
  /\ script = "fix" /\ Len(hist) >= 3
  /\ Find(hist[1], Anchor3) > 0
  /\ Count(hist[1], Anchor3) >= 2
  /\ hist[2] # hist[1]

\* C5: a second run of the fix job on the file a first run patched writes
\* the same content again: no anchor of the job is in that file any more,
\* and the second run reports each of them as unapplied.
C5_RerunIdempotentReported ==
  (FixDone /\ run >= 2) =>
    /\ disk = runStart
    /\ ~Contains(runStart, Anchor3)
    /\ ~Contains(runStart, Anchor1)
    /\ ~Contains(runStart, Pattern2)
    /\ ReportedUnapplied = {1, 2, 3}

\* C6: the report of a fix-job run is truthful: the operations it names as
\* applied are those whose anchor was found, and it announces all 3 fixes
\* only when each of them changed the content.
C6_ReportTruthful ==
  FixDone =>
    /\ ReportedApplied = FoundOps
    /\ Printed(MsgAll3) =>
         (hist[2] # hist[1] /\ hist[3] # hist[2] /\ hist[4] # hist[3])

\* C7: in every state of every run of either script the file holds its
\* content of before the run or the complete result of the job.
C7_AllOrNothing ==
  \/ disk = runStart
  \/ script = "fix" /\ disk = FixJob(runStart)
  \/ script = "doc" /\ Contains(runStart, DocAnchor) /\ disk = DocJob(runStart)

\* C8: a fix-job run reads the file once before any substitution, applies
\* Fix #3, Fix #1 and Fix #2 in this order, each to the output of the one
\* before, and writes the file once after the last one: the content
\* written is Fix2(Fix1(Fix3(C))) for the content C read.
C8_OrderedSinglePass ==
  script = "fix" =>
    /\ pc \in {"fix3", "fix1", "fix2", "openw"} =>
         (reads = 1 /\ opensW = 0 /\ writes = 0 /\ disk = runStart
          /\ hist[1] = runStart /\ content = hist[Len(hist)])
    /\ Len(hist) >= 2 => hist[2] = StrReplace(hist[1], Anchor3, Repl3)
    /\ Len(hist) >= 3 => hist[3] = StrReplace(hist[2], Anchor1, Repl1)
    /\ Len(hist) >= 4 => hist[4] = ReSub(Pattern2, Repl2, hist[3])
    /\ pc \in {"report", "done"} =>
         (reads = 1 /\ opensW = 1 /\ writes = 1 /\ Len(hist) = 4
          /\ disk = FixJob(runStart))

C8_Witness ==
  /\ FixDone
  /\ Contains(hist[1], Anchor3) /\ Contains(hist[1], Anchor1)
  /\ Contains(hist[1], Pattern2)

\* the segments of c that lie inside an occurrence of a (1-based)
Covered(c, a, k) == \E i \in Offsets(c, a) : i < k /\ k <= i + Len(a)

\* C9: the regex step replaces every occurrence of its pattern and leaves
\* the text outside the matches unchanged: the replacement stands at each
\* offset where the pattern stood (pattern and replacement are two
\* segments each, so offsets are kept), every other segment is the same,
\* and the pattern matches nowhere in the result.
C9_RegexReplacesAll ==
  (script = "fix" /\ Len(hist) >= 4) =>
    /\ Len(hist[4]) = Len(hist[3])
    /\ \A i \in Offsets(hist[3], Pattern2) : OccursAt(hist[4], Repl2, i)
    /\ \A k \in 1..Len(hist[3]) :
         ~Covered(hist[3], Pattern2, k) => hist[4][k] = hist[3][k]
    /\ ~Contains(hist[4], Pattern2)

C9_Witness ==
  /\ script = "fix" /\ Len(hist) >= 4
  /\ Count(hist[3], Pattern2) >= 2
  /\ \E k \in 1..Len(hist[3]) : ~Covered(hist[3], Pattern2, k)

DocQuiet == script = "doc" /\ pc \in {"done", "exited"}

\* C10 as claimed: for every starting content, once a run of update-doc.py
\* has succeeded the anchor is no longer in the file, no later run
\* succeeds or changes the file, and the runs have put at most one copy of
\* the block into the file.
C10_NeverTwice ==
  DocQuiet =>
    /\ okRuns >= 1 => ~Contains(disk, DocAnchor)
    /\ okRuns <= 1
    /\ (okRuns >= 1 /\ pc = "exited") => disk = runStart
    /\ Count(disk, PHASE_72_DOC) <= Count(disk0, PHASE_72_DOC) + 1

\* C10 as amended: for every starting content that has the anchor at most
\* once, once a run has succeeded the anchor is no longer in the file, no
\* later run succeeds or changes the file, and the runs have put at most
\* one copy of the block into the file.
C10_NeverTwiceSingleAnchor ==
  (DocQuiet /\ Count(disk0, DocAnchor) <= 1) =>
    /\ okRuns >= 1 => ~Contains(disk, DocAnchor)
    /\ okRuns <= 1
    /\ (okRuns >= 1 /\ pc = "exited") => disk = runStart
    /\ Count(disk, PHASE_72_DOC) <= Count(disk0, PHASE_72_DOC) + 1

C10_Witness ==
  /\ script = "doc" /\ pc = "exited" /\ run >= 2 /\ okRuns = 1
  /\ Count(disk0, DocAnchor) = 1
  /\ Count(disk, PHASE_72_DOC) = 1

====
